---- MODULE Spec2Model ----
(***************************************************************************)
(* Hospital management application (backend/app.py): the appointment      *)
(* booking engine, the appointment status lifecycle with its Treatment    *)
(* record, and the doctor availability manager.                           *)
(*                                                                        *)
(* Tables are modelled as they are stored: Appointment and Treatment rows *)
(* as sequences indexed by their primary key, DoctorAvailability rows as  *)
(* a bag (rows carry no key that any handler reads).  Every route handler *)
(* is one operator with the request's inputs as parameters; only the POST *)
(* branch of a handler is modelled, a GET renders a page and writes       *)
(* nothing.  Form values are the well-formed values a browser form sends  *)
(* (a date as %Y-%m-%d, a time as %H:%M) or the empty string for a field  *)
(* left blank.                                                            *)
(*                                                                        *)
(* The booking and lifecycle handlers read and write the Appointment and  *)
(* Treatment tables only, the availability handler the DoctorAvailability *)
(* table only, so each is explored by its own specification:              *)
(*   Spec       booking and lifecycle requests served one at a time       *)
(*   SpecWide   the same over more dates, times and completion forms      *)
(*   SpecConc   booking and lifecycle requests interleaved statement by   *)
(*              statement                                                 *)
(*   SpecAvail  availability POSTs over the passing days                  *)
(*   SpecAdmin  booking and lifecycle requests with doctors deactivated   *)
(*   SpecAvailConc  availability POSTs of concurrent request threads      *)
(***************************************************************************)
EXTENDS Integers, Sequences, FiniteSets, Bags, TLC

VARIABLES
    user_active,   \* User.is_active, per user
    appts,         \* Appointment table: row id = index
    treatments,    \* Treatment table: row id = index
    avail,         \* DoctorAvailability table: bag of rows
    today,         \* date.today(), as a day number
    inflight,      \* per request thread, the request it is in the middle of: a
                   \* book_appointment between its SELECT and its INSERT, or a
                   \* doctor_availability between its start and its commit
    result         \* outcome of the last request: its flash message, the 404 it
                   \* aborted with, or "none"

vars == <<user_active, appts, treatments, avail, today, inflight, result>>

----------------------------------------------------------------------------
(* Bounds of the model *)

MaxAppts == 2        \* Appointment rows ever inserted
MaxDay == 1          \* days the calendar advances

(* Program constants *)

HorizonDays == 7     \* for i in range(7)
WeekEndDelta == 7    \* week_end = date.today() + timedelta(days=7)
NoDate == 0          \* follow_up_date = None

----------------------------------------------------------------------------
(* Users and their profiles: the state after the admin added two doctors  *)
(* and two patients registered.                                           *)

Users == {"admin", "drA", "drB", "patP", "patQ"}

Role(u) ==
    CASE u = "admin" -> "admin"
      [] u \in {"drA", "drB"} -> "doctor"
      [] OTHER -> "patient"

\* Doctor.query.filter_by(user_id=current_user.id).first()
DoctorProfile(u) == CASE u = "drA" -> 1 [] u = "drB" -> 2 [] OTHER -> 0

\* Patient.query.filter_by(user_id=current_user.id).first()
PatientProfile(u) == CASE u = "patP" -> 1 [] u = "patQ" -> 2 [] OTHER -> 0

DoctorIds == {1, 2}
PatientIds == {1, 2}

\* Doctor.user
DoctorUser(d) == CASE d = 1 -> "drA" [] OTHER -> "drB"

\* datetime.strptime(s, '%Y-%m-%d').date(), as a day number
ParseDate(s) ==
    CASE s = "2024-01-10" -> 10
      [] s = "2024-01-11" -> 11
      [] s = "2024-02-01" -> 32

\* datetime.strptime(s, '%H:%M').time(), as minutes after midnight
ParseTime(s) ==
    CASE s = "09:00" -> 540
      [] s = "09:30" -> 570
      [] s = "10:00" -> 600
      [] s = "12:00" -> 720

\* login_required and role_required: the request goes through only for an
\* authenticated user (flask_login's UserMixin: is_authenticated is is_active)
\* of the given role
RoleOK(u, role) == user_active[u] /\ Role(u) = role

\* what the decorators answer otherwise: login_required sends an inactive user to
\* the login page, role_required flashes 'Access denied'
Refusal(u) == IF user_active[u] THEN "Access denied" ELSE "Please log in"

----------------------------------------------------------------------------
(* Request inputs *)

\* <int:doctor_id> of the booking URL; 3 is the id of no doctor
DoctorIdInputs == {1, 2, 3}

\* <int:appointment_id> of the lifecycle URLs; ids beyond the table are absent rows
AppointmentIdInputs == 1..MaxAppts

\* the booking form: one date, two times
BookForms ==
    [appointment_date : {"2024-01-10"},
     appointment_time : {"09:30", "10:00"},
     reason : {"checkup"}]

\* the booking form: two dates, two times
BookFormsWide ==
    [appointment_date : {"2024-01-10", "2024-01-11"},
     appointment_time : {"09:30", "10:00"},
     reason : {"checkup"}]

\* the completion form; follow_up_date "" is the field left blank
TreatmentForms ==
    { [diagnosis |-> "flu", prescription |-> "rest", notes |-> "n1",
       follow_up_date |-> "2024-02-01"] }

TreatmentFormsWide ==
    TreatmentForms \cup
    { [diagnosis |-> "cold", prescription |-> "syrup", notes |-> "n2",
       follow_up_date |-> ""] }

\* the users who send requests to the patient and doctor routes
Actors == {"drA", "drB", "patP", "patQ"}

\* request threads of the web server
Workers == {1, 2}

NoRow ==
    [patient_id |-> 0, doctor_id |-> 0, appointment_date |-> 0,
     appointment_time |-> 0, status |-> "none", reason |-> ""]

Idle == [pc |-> "idle", row |-> NoRow]

----------------------------------------------------------------------------
(* The database.  It is a SQLite file, and each request thread works in   *)
(* its own session and connection.  A SELECT reads the committed tables.  *)
(* The first write statement of a request (an INSERT, UPDATE or DELETE,   *)
(* sent when the session flushes) opens a transaction and takes the       *)
(* database's single write lock, held until the request's commit; what    *)
(* the transaction wrote reaches the tables at the commit.  A write       *)
(* statement that finds the lock taken waits for it, and after the busy   *)
(* timeout gives up: the request aborts with OperationalError 'database   *)
(* is locked', answered 500, and writes nothing.                          *)

\* the positions of a request between its first write statement and its commit
WritingPcs ==
    {"commit", "complete_flush_locked", "complete_commit", "doctor_cancel_commit",
     "cancel_commit", "avail_insert", "avail_commit"}

\* Mutant: a database without the single writer lock
WriteLockFree_NoLock(w) == TRUE

\* no other request is between its first write statement and its commit
WriteLockFree(w) ==
    \A v \in Workers \ {w} : inflight[v].pc \notin WritingPcs

----------------------------------------------------------------------------
(* Booking engine *)

\* Mutant: the status compared in the wrong case, status='booked'
ConflictQuery_Lowercase(rows, doctor_id, d, t) ==
    \E i \in DOMAIN rows :
        /\ rows[i].doctor_id = doctor_id
        /\ rows[i].appointment_date = d
        /\ rows[i].appointment_time = t
        /\ rows[i].status = "booked"

\* Mutant: the status filter left out
ConflictQuery_AnyStatus(rows, doctor_id, d, t) ==
    \E i \in DOMAIN rows :
        /\ rows[i].doctor_id = doctor_id
        /\ rows[i].appointment_date = d
        /\ rows[i].appointment_time = t

\* Appointment.query.filter_by(doctor_id=, appointment_date=, appointment_time=,
\*                            status='Booked').first()
ConflictQuery(rows, doctor_id, d, t) ==
    \E i \in DOMAIN rows :
        /\ rows[i].doctor_id = doctor_id
        /\ rows[i].appointment_date = d
        /\ rows[i].appointment_time = t
        /\ rows[i].status = "Booked"

\* Appointment(patient_id=, doctor_id=, appointment_date=, appointment_time=,
\*             reason=, status='Booked'); created_at is read by no handler
NewAppointment(patient_id, doctor_id, form) ==
    [patient_id |-> patient_id, doctor_id |-> doctor_id,
     appointment_date |-> ParseDate(form.appointment_date),
     appointment_time |-> ParseTime(form.appointment_time),
     status |-> "Booked", reason |-> form.reason]

\* Mutant: a booking of a slot that holds a row which is no longer Booked sets
\* that row back to Booked instead of adding a row
book_appointment_Reopening(u, doctor_id, form) ==
    /\ UNCHANGED <<user_active, treatments, avail, today, inflight>>
    /\ IF ~RoleOK(u, "patient")
       THEN appts' = appts /\ result' = Refusal(u)
       ELSE IF doctor_id \notin DoctorIds
       THEN appts' = appts /\ result' = "404 doctor"
       ELSE LET row == NewAppointment(PatientProfile(u), doctor_id, form)
                old == {i \in DOMAIN appts :
                           /\ appts[i].doctor_id = doctor_id
                           /\ appts[i].appointment_date = row.appointment_date
                           /\ appts[i].appointment_time = row.appointment_time}
            IN  IF ConflictQuery(appts, doctor_id, row.appointment_date,
                                 row.appointment_time)
                THEN appts' = appts /\ result' = "Time slot already booked"
                ELSE IF old # {}
                THEN /\ appts' = [appts EXCEPT ![CHOOSE i \in old : TRUE] = row]
                     /\ result' = "Appointment booked"
                ELSE /\ Len(appts) < MaxAppts
                     /\ appts' = Append(appts, row)
                     /\ result' = "Appointment booked"

\* POST /patient/book-appointment/<doctor_id>, one request at a time
book_appointment(u, doctor_id, form) ==
    /\ UNCHANGED <<user_active, treatments, avail, today, inflight>>
    /\ IF ~RoleOK(u, "patient")
       THEN appts' = appts /\ result' = Refusal(u)
       ELSE IF doctor_id \notin DoctorIds
       THEN appts' = appts /\ result' = "404 doctor"
       ELSE LET row == NewAppointment(PatientProfile(u), doctor_id, form)
            IN  IF ConflictQuery(appts, doctor_id, row.appointment_date,
                                 row.appointment_time)
                THEN appts' = appts /\ result' = "Time slot already booked"
                ELSE /\ Len(appts) < MaxAppts
                     /\ appts' = Append(appts, row)
                     /\ result' = "Appointment booked"

\* The same request up to its SELECT: the conflict check on the committed rows
book_select(w, u, doctor_id, form) ==
    /\ inflight[w].pc = "idle"
    /\ UNCHANGED <<user_active, appts, treatments, avail, today>>
    /\ IF ~RoleOK(u, "patient")
       THEN inflight' = inflight /\ result' = Refusal(u)
       ELSE IF doctor_id \notin DoctorIds
       THEN inflight' = inflight /\ result' = "404 doctor"
       ELSE LET row == NewAppointment(PatientProfile(u), doctor_id, form)
            IN  IF ConflictQuery(appts, doctor_id, row.appointment_date,
                                 row.appointment_time)
                THEN inflight' = inflight /\ result' = "Time slot already booked"
                ELSE /\ inflight' = [inflight EXCEPT ![w] = [pc |-> "insert", row |-> row]]
                     /\ result' = result

\* db.session.add(Appointment(...)) and the flush of db.session.commit(): the
\* INSERT, which takes the write lock
book_insert(w) ==
    /\ inflight[w].pc = "insert"
    /\ WriteLockFree(w)
    /\ Len(appts) < MaxAppts
    /\ inflight' = [inflight EXCEPT ![w] = [@ EXCEPT !.pc = "commit"]]
    /\ UNCHANGED <<user_active, appts, treatments, avail, today, result>>

\* the COMMIT of db.session.commit(), and the flash
book_commit(w) ==
    /\ inflight[w].pc = "commit"
    /\ appts' = Append(appts, inflight[w].row)
    /\ inflight' = [inflight EXCEPT ![w] = Idle]
    /\ result' = "Appointment booked"
    /\ UNCHANGED <<user_active, treatments, avail, today>>

----------------------------------------------------------------------------
(* Status lifecycle *)

\* Mutant: the doctor_id filter left out
FoundForDoctor_AnyDoctor(rows, appointment_id, doctor_id) ==
    appointment_id \in DOMAIN rows

\* Appointment.query.filter_by(id=appointment_id, doctor_id=doctor.id).first_or_404()
FoundForDoctor(rows, appointment_id, doctor_id) ==
    /\ appointment_id \in DOMAIN rows
    /\ rows[appointment_id].doctor_id = doctor_id

\* Appointment.query.filter_by(id=appointment_id, patient_id=patient.id).first_or_404()
FoundForPatient(rows, appointment_id, patient_id) ==
    /\ appointment_id \in DOMAIN rows
    /\ rows[appointment_id].patient_id = patient_id

\* Treatment.query.filter_by(appointment_id=appointment.id)
TreatmentsOf(trs, appointment_id) ==
    {i \in DOMAIN trs : trs[i].appointment_id = appointment_id}

\* .first(): the row of least id
FirstOf(S) == CHOOSE i \in S : \A j \in S : i <= j

\* the treatment branch of complete_appointment: update the row found, or add one
UpsertTreatment(trs, appointment_id, form) ==
    LET found == TreatmentsOf(trs, appointment_id)
    IN  IF found # {}
        THEN [trs EXCEPT ![FirstOf(found)] =
                [@ EXCEPT !.diagnosis = form.diagnosis,
                          !.prescription = form.prescription,
                          !.notes = form.notes,
                          !.follow_up_date =
                              IF form.follow_up_date # ""
                              THEN ParseDate(form.follow_up_date) ELSE @]]
        ELSE Append(trs,
                [appointment_id |-> appointment_id,
                 diagnosis |-> form.diagnosis,
                 prescription |-> form.prescription,
                 notes |-> form.notes,
                 follow_up_date |->
                     IF form.follow_up_date # ""
                     THEN ParseDate(form.follow_up_date) ELSE NoDate])

\* POST /doctor/appointment/<appointment_id>/complete
complete_appointment(u, appointment_id, form) ==
    /\ UNCHANGED <<user_active, avail, today, inflight>>
    /\ IF ~RoleOK(u, "doctor")
       THEN UNCHANGED <<appts, treatments>> /\ result' = Refusal(u)
       ELSE IF ~FoundForDoctor(appts, appointment_id, DoctorProfile(u))
       THEN UNCHANGED <<appts, treatments>> /\ result' = "404 appointment"
       ELSE /\ appts' = [appts EXCEPT ![appointment_id].status = "Completed"]
            /\ treatments' = UpsertTreatment(treatments, appointment_id, form)
            /\ result' = "Appointment completed"

\* POST /doctor/appointment/<appointment_id>/cancel
doctor_cancel_appointment(u, appointment_id) ==
    /\ UNCHANGED <<user_active, treatments, avail, today, inflight>>
    /\ IF ~RoleOK(u, "doctor")
       THEN appts' = appts /\ result' = Refusal(u)
       ELSE IF ~FoundForDoctor(appts, appointment_id, DoctorProfile(u))
       THEN appts' = appts /\ result' = "404 appointment"
       ELSE /\ appts' = [appts EXCEPT ![appointment_id].status = "Cancelled"]
            /\ result' = "Cancelled"

\* POST /patient/appointment/<appointment_id>/cancel
cancel_appointment(u, appointment_id) ==
    /\ UNCHANGED <<user_active, treatments, avail, today, inflight>>
    /\ IF ~RoleOK(u, "patient")
       THEN appts' = appts /\ result' = Refusal(u)
       ELSE IF ~FoundForPatient(appts, appointment_id, PatientProfile(u))
       THEN appts' = appts /\ result' = "404 appointment"
       ELSE IF appts[appointment_id].status = "Booked"
       THEN /\ appts' = [appts EXCEPT ![appointment_id].status = "Cancelled"]
            /\ result' = "Appointment cancelled"
       ELSE appts' = appts /\ result' = "none"

\* POST /admin/delete-doctor/<doctor_id>
delete_doctor(u, doctor_id) ==
    /\ UNCHANGED <<appts, treatments, avail, today, inflight>>
    /\ IF ~RoleOK(u, "admin")
       THEN user_active' = user_active /\ result' = Refusal(u)
       ELSE IF doctor_id \notin DoctorIds
       THEN user_active' = user_active /\ result' = "404 doctor"
       ELSE /\ user_active' = [user_active EXCEPT ![DoctorUser(doctor_id)] = FALSE]
            /\ result' = "Doctor deactivated"

\* Patient.user
PatientUser(p) == CASE p = 1 -> "patP" [] OTHER -> "patQ"

\* POST /admin/delete-patient/<patient_id>
delete_patient(u, patient_id) ==
    /\ UNCHANGED <<appts, treatments, avail, today, inflight>>
    /\ IF ~RoleOK(u, "admin")
       THEN user_active' = user_active /\ result' = Refusal(u)
       ELSE IF patient_id \notin PatientIds
       THEN user_active' = user_active /\ result' = "404 patient"
       ELSE /\ user_active' = [user_active EXCEPT ![PatientUser(patient_id)] = FALSE]
            /\ result' = "Patient deactivated"

----------------------------------------------------------------------------
(* The status lifecycle served by concurrent request threads.  A request  *)
(* reads its Appointment row with a SELECT, assigns to the loaded object  *)
(* and writes at the flush of the session: an UPDATE of the columns whose *)
(* value differs from the value loaded, or no statement when none does.   *)
(* Other requests run between its statements.                             *)

NoTreatment ==
    [appointment_id |-> 0, diagnosis |-> "", prescription |-> "", notes |-> "",
     follow_up_date |-> NoDate]

TreatmentFields == {"diagnosis", "prescription", "notes", "follow_up_date"}

\* the Treatment object after the assignments of the treatment branch, from the
\* object loaded (or from the new object: follow_up_date None unless given)
Assigned(old, form) ==
    [old EXCEPT !.diagnosis = form.diagnosis,
                !.prescription = form.prescription,
                !.notes = form.notes,
                !.follow_up_date =
                    IF form.follow_up_date # "" THEN ParseDate(form.follow_up_date) ELSE @]

\* the columns the flush writes: those whose value differs from the value loaded
Changed(old, form) == {f \in TreatmentFields : Assigned(old, form)[f] # old[f]}

\* the decorators, the doctor lookup and the SELECT of the appointment
complete_select(w, u, appointment_id, form) ==
    /\ inflight[w].pc = "idle"
    /\ UNCHANGED <<user_active, appts, treatments, avail, today>>
    /\ IF ~RoleOK(u, "doctor")
       THEN inflight' = inflight /\ result' = Refusal(u)
       ELSE IF ~FoundForDoctor(appts, appointment_id, DoctorProfile(u))
       THEN inflight' = inflight /\ result' = "404 appointment"
       ELSE /\ inflight' = [inflight EXCEPT ![w] =
                              [pc |-> "complete_autoflush",
                               appointment_id |-> appointment_id, form |-> form,
                               loaded |-> appts[appointment_id].status,
                               tr |-> 0, tr_loaded |-> NoTreatment]]
            /\ result' = result

\* appointment.status = 'Completed' and the Treatment query, before which the
\* session flushes: the UPDATE of the status, unless the status loaded was
\* Completed, takes the write lock; then the SELECT of the Treatment
complete_autoflush(w) ==
    /\ inflight[w].pc = "complete_autoflush"
    /\ inflight[w].loaded = "Completed" \/ WriteLockFree(w)
    /\ LET found == TreatmentsOf(treatments, inflight[w].appointment_id)
           id == IF found = {} THEN 0 ELSE FirstOf(found)
       IN  inflight' = [inflight EXCEPT ![w] =
                          [@ EXCEPT !.pc = IF inflight[w].loaded = "Completed"
                                           THEN "complete_flush"
                                           ELSE "complete_flush_locked",
                                    !.tr = id,
                                    !.tr_loaded = IF id = 0 THEN NoTreatment
                                                  ELSE treatments[id]]]
    /\ UNCHANGED <<user_active, appts, treatments, avail, today, result>>

\* the request has a Treatment statement to send: the INSERT of a new row, or
\* the UPDATE of the columns changed
WritesTreatment(r) == r.tr = 0 \/ Changed(r.tr_loaded, r.form) # {}

\* the treatment branch and the flush of db.session.commit(): the INSERT or the
\* UPDATE of the Treatment, which takes the write lock if the request does not
\* hold it; a request with nothing to write is done
complete_flush(w) ==
    /\ inflight[w].pc \in {"complete_flush", "complete_flush_locked"}
    /\ UNCHANGED <<user_active, appts, treatments, avail, today>>
    /\ IF inflight[w].pc = "complete_flush" /\ ~WritesTreatment(inflight[w])
       THEN /\ inflight' = [inflight EXCEPT ![w] = Idle]
            /\ result' = "Appointment completed"
       ELSE /\ inflight[w].pc = "complete_flush_locked" \/ WriteLockFree(w)
            /\ inflight' = [inflight EXCEPT ![w] = [@ EXCEPT !.pc = "complete_commit"]]
            /\ result' = result

\* the COMMIT of db.session.commit(), and the flash.  The INSERT meets no
\* Treatment of the appointment (appointment_id is unique): the request that
\* found none has held the write lock since before its SELECT.
complete_commit(w) ==
    /\ inflight[w].pc = "complete_commit"
    /\ LET r == inflight[w]
           new == Assigned(r.tr_loaded, r.form)
       IN  /\ appts' = IF r.loaded # "Completed"
                       THEN [appts EXCEPT ![r.appointment_id].status = "Completed"]
                       ELSE appts
           /\ treatments' =
                IF r.tr = 0
                THEN Append(treatments, [new EXCEPT !.appointment_id = r.appointment_id])
                ELSE [treatments EXCEPT ![r.tr] =
                        [f \in DOMAIN treatments[r.tr] |->
                            IF f \in Changed(r.tr_loaded, r.form)
                            THEN new[f] ELSE treatments[r.tr][f]]]
    /\ inflight' = [inflight EXCEPT ![w] = Idle]
    /\ result' = "Appointment completed"
    /\ UNCHANGED <<user_active, avail, today>>

\* the decorators, the doctor lookup and the SELECT of the appointment
doctor_cancel_select(w, u, appointment_id) ==
    /\ inflight[w].pc = "idle"
    /\ UNCHANGED <<user_active, appts, treatments, avail, today>>
    /\ IF ~RoleOK(u, "doctor")
       THEN inflight' = inflight /\ result' = Refusal(u)
       ELSE IF ~FoundForDoctor(appts, appointment_id, DoctorProfile(u))
       THEN inflight' = inflight /\ result' = "404 appointment"
       ELSE /\ inflight' = [inflight EXCEPT ![w] =
                              [pc |-> "doctor_cancel_flush",
                               appointment_id |-> appointment_id,
                               loaded |-> appts[appointment_id].status]]
            /\ result' = result

\* .status = 'Cancelled' and the flush of db.session.commit(): the UPDATE, which
\* takes the write lock; a request that loaded Cancelled has nothing to write
doctor_cancel_flush(w) ==
    /\ inflight[w].pc = "doctor_cancel_flush"
    /\ UNCHANGED <<user_active, appts, treatments, avail, today>>
    /\ IF inflight[w].loaded = "Cancelled"
       THEN /\ inflight' = [inflight EXCEPT ![w] = Idle]
            /\ result' = "Cancelled"
       ELSE /\ WriteLockFree(w)
            /\ inflight' = [inflight EXCEPT ![w] = [@ EXCEPT !.pc = "doctor_cancel_commit"]]
            /\ result' = result

\* the COMMIT, and the flash
doctor_cancel_commit(w) ==
    /\ inflight[w].pc = "doctor_cancel_commit"
    /\ appts' = [appts EXCEPT ![inflight[w].appointment_id].status = "Cancelled"]
    /\ inflight' = [inflight EXCEPT ![w] = Idle]
    /\ result' = "Cancelled"
    /\ UNCHANGED <<user_active, treatments, avail, today>>

\* the decorators, the patient lookup, the SELECT of the appointment and the
\* test of its status
cancel_select(w, u, appointment_id) ==
    /\ inflight[w].pc = "idle"
    /\ UNCHANGED <<user_active, appts, treatments, avail, today>>
    /\ IF ~RoleOK(u, "patient")
       THEN inflight' = inflight /\ result' = Refusal(u)
       ELSE IF ~FoundForPatient(appts, appointment_id, PatientProfile(u))
       THEN inflight' = inflight /\ result' = "404 appointment"
       ELSE IF appts[appointment_id].status # "Booked"
       THEN inflight' = inflight /\ result' = "none"
       ELSE /\ inflight' = [inflight EXCEPT ![w] =
                              [pc |-> "cancel_flush",
                               appointment_id |-> appointment_id,
                               loaded |-> appts[appointment_id].status]]
            /\ result' = result

\* appointment.status = 'Cancelled' and the flush of db.session.commit(): the
\* UPDATE, which takes the write lock
cancel_flush(w) ==
    /\ inflight[w].pc = "cancel_flush"
    /\ WriteLockFree(w)
    /\ inflight' = [inflight EXCEPT ![w] = [@ EXCEPT !.pc = "cancel_commit"]]
    /\ UNCHANGED <<user_active, appts, treatments, avail, today, result>>

\* the COMMIT, and the flash
cancel_commit(w) ==
    /\ inflight[w].pc = "cancel_commit"
    /\ appts' = [appts EXCEPT ![inflight[w].appointment_id].status = "Cancelled"]
    /\ inflight' = [inflight EXCEPT ![w] = Idle]
    /\ result' = "Appointment cancelled"
    /\ UNCHANGED <<user_active, treatments, avail, today>>

\* the request stands before a statement that takes the write lock
AwaitsLock(r) ==
    \/ r.pc \in {"insert", "cancel_flush"}
    \/ r.pc = "complete_autoflush" /\ r.loaded # "Completed"
    \/ r.pc = "complete_flush" /\ WritesTreatment(r)
    \/ r.pc = "doctor_cancel_flush" /\ r.loaded # "Cancelled"

\* the write statement of a booking or lifecycle request that waited for the
\* write lock in vain: the request aborts with OperationalError 'database is
\* locked' and writes nothing
request_locked(w) ==
    /\ AwaitsLock(inflight[w])
    /\ ~WriteLockFree(w)
    /\ inflight' = [inflight EXCEPT ![w] = Idle]
    /\ result' = "500 database is locked"
    /\ UNCHANGED <<user_active, appts, treatments, avail, today>>

----------------------------------------------------------------------------
(* Availability manager *)

\* offsets from today of the dates a submitted form has fields for: the first
\* and the last day of the loop
FormOffsets == {0, 6}

\* the fields of one date: the checkbox and the two time inputs
FormEntries ==
    { [available |-> TRUE,  start |-> "09:00", end |-> "12:00"],
      [available |-> TRUE,  start |-> "12:00", end |-> "09:00"],
      [available |-> TRUE,  start |-> "09:00", end |-> ""],
      [available |-> FALSE, start |-> "09:00", end |-> "12:00"] }

\* the forms submitted on day t: the fields of the dates t + FormOffsets, or the
\* fields of the date t + 7, which the loop does not reach
AvailabilityForms(t) ==
    [{t + o : o \in FormOffsets} -> FormEntries] \cup [{t + WeekEndDelta} -> FormEntries]

\* Mutant: the lower end of the date range left out
InWeek_NoLowerEnd(r, doctor_id, t) ==
    /\ r.doctor_id = doctor_id
    /\ r.date <= t + WeekEndDelta

\* DoctorAvailability.doctor_id==doctor.id, DoctorAvailability.date>=today,
\* DoctorAvailability.date<=week_end
InWeek(r, doctor_id, t) ==
    /\ r.doctor_id = doctor_id
    /\ r.date >= t
    /\ r.date <= t + WeekEndDelta

\* the rows of a table that a filter selects
Rows(B, S) == [r \in S |-> B[r]]

\* DoctorAvailability.query.filter(...).delete()
DeleteWeek(rows, doctor_id, t) ==
    Rows(rows, {r \in DOMAIN rows : ~InWeek(r, doctor_id, t)})

\* the loop body: the fields of date d pass the three truthiness tests
Submitted(form, d) ==
    /\ d \in DOMAIN form
    /\ form[d].available
    /\ form[d].start # ""
    /\ form[d].end # ""

\* DoctorAvailability(doctor_id=, date=, start_time=, end_time=, is_available=True)
NewWindow(doctor_id, d, entry) ==
    [doctor_id |-> doctor_id, date |-> d,
     start_time |-> ParseTime(entry.start), end_time |-> ParseTime(entry.end),
     is_available |-> TRUE]

\* for i in range(7): add the window of date today + i when its fields are submitted
AddWindows(rows, doctor_id, t, form) ==
    rows (+) SetToBag({ NewWindow(doctor_id, t + i, form[t + i]) :
                        i \in {j \in 0..(HorizonDays - 1) : Submitted(form, t + j)} })

\* POST /doctor/availability
doctor_availability(u, form) ==
    /\ UNCHANGED <<user_active, appts, treatments, today, inflight>>
    /\ IF ~RoleOK(u, "doctor")
       THEN avail' = avail /\ result' = Refusal(u)
       ELSE /\ avail' = AddWindows(DeleteWeek(avail, DoctorProfile(u), today),
                                   DoctorProfile(u), today, form)
            /\ result' = "Availability updated"

(* The same POST served by concurrent request threads.  Each request runs *)
(* in its own session and connection: its DELETE and its INSERTs are its  *)
(* own until db.session.commit().  The database is a SQLite file: the     *)
(* first write statement of a transaction, here the DELETE, takes the     *)
(* database's write lock and the transaction holds it until it commits; a *)
(* second writer waits for the lock, or gives up with 'database is        *)
(* locked'.                                                               *)

\* the decorators, the doctor lookup and date.today(): the request up to its DELETE
avail_begin(w, u, form) ==
    /\ inflight[w].pc = "idle"
    /\ UNCHANGED <<user_active, appts, treatments, avail, today>>
    /\ IF ~RoleOK(u, "doctor")
       THEN inflight' = inflight /\ result' = Refusal(u)
       ELSE /\ inflight' = [inflight EXCEPT ![w] =
                              [pc |-> "avail_delete", doctor_id |-> DoctorProfile(u),
                               t |-> today, form |-> form,
                               deleted |-> EmptyBag, added |-> EmptyBag]]
            /\ result' = result

\* DoctorAvailability.query.filter(...).delete(): the rows of the week, as
\* committed, are deleted in the request's transaction
avail_delete(w) ==
    /\ inflight[w].pc = "avail_delete"
    /\ WriteLockFree(w)
    /\ inflight' = [inflight EXCEPT ![w] =
                      [@ EXCEPT !.pc = "avail_insert",
                                !.deleted = Rows(avail, {r \in DOMAIN avail :
                                                InWeek(r, inflight[w].doctor_id,
                                                       inflight[w].t)})]]
    /\ UNCHANGED <<user_active, appts, treatments, avail, today, result>>

\* the DELETE of a request that waited for the write lock in vain: the request
\* aborts with OperationalError 'database is locked' and writes nothing
avail_locked(w) ==
    /\ inflight[w].pc = "avail_delete"
    /\ ~WriteLockFree(w)
    /\ inflight' = [inflight EXCEPT ![w] = Idle]
    /\ result' = "500 database is locked"
    /\ UNCHANGED <<user_active, appts, treatments, avail, today>>

\* the loop of db.session.add(DoctorAvailability(...))
avail_insert(w) ==
    /\ inflight[w].pc = "avail_insert"
    /\ inflight' = [inflight EXCEPT ![w] =
                      [@ EXCEPT !.pc = "avail_commit",
                                !.added = AddWindows(EmptyBag, inflight[w].doctor_id,
                                                     inflight[w].t, inflight[w].form)]]
    /\ UNCHANGED <<user_active, appts, treatments, avail, today, result>>

\* db.session.commit(): the transaction's deletes and inserts reach the table
avail_commit(w) ==
    /\ inflight[w].pc = "avail_commit"
    /\ avail' = (avail (-) inflight[w].deleted) (+) inflight[w].added
    /\ inflight' = [inflight EXCEPT ![w] = Idle]
    /\ result' = "Availability updated"
    /\ UNCHANGED <<user_active, appts, treatments, today>>

\* the availability query of the booking page: the doctor's available windows
\* of the coming week
AvailabilityQuery(rows, doctor_id, t) ==
    Rows(rows, {r \in DOMAIN rows : InWeek(r, doctor_id, t) /\ r.is_available})

\* midnight: date.today() moves to the next day
NextDay ==
    /\ today < MaxDay
    /\ today' = today + 1
    /\ UNCHANGED <<user_active, appts, treatments, avail, inflight, result>>

----------------------------------------------------------------------------
Init ==
    /\ user_active = [u \in Users |-> TRUE]
    /\ appts = <<>>
    /\ treatments = <<>>
    /\ avail = EmptyBag
    /\ today = 0
    /\ inflight = [w \in Workers |-> Idle]
    /\ result = "none"

----------------------------------------------------------------------------
(* Requests served one at a time: booking and the status lifecycle.  The   *)
(* requests a route answers alike whatever their inputs (a user of the    *)
(* wrong role, a doctor id of no doctor) are sent with one input each.    *)

Patients == {"patP", "patQ"}

Doctors == {"drA", "drB"}

\* the booking requests: two patients for one slot, one patient for two times of
\* a doctor, and the same date and time with two doctors
BookRequests ==
    { <<"patP", 1, [appointment_date |-> "2024-01-10", appointment_time |-> "09:30",
                    reason |-> "checkup"]>>,
      <<"patP", 1, [appointment_date |-> "2024-01-10", appointment_time |-> "10:00",
                    reason |-> "checkup"]>>,
      <<"patQ", 1, [appointment_date |-> "2024-01-10", appointment_time |-> "09:30",
                    reason |-> "checkup"]>>,
      <<"patQ", 2, [appointment_date |-> "2024-01-10", appointment_time |-> "09:30",
                    reason |-> "checkup"]>> }

BookStep == \E r \in BookRequests : book_appointment(r[1], r[2], r[3])

BookAbsentDoctorStep ==
    \E u \in {"patP"}, d \in DoctorIdInputs \ DoctorIds, f \in BookForms :
        book_appointment(u, d, f)

CompleteStep ==
    \E u \in Doctors, a \in AppointmentIdInputs, f \in TreatmentForms :
        complete_appointment(u, a, f)

DoctorCancelStep ==
    \E u \in Doctors, a \in AppointmentIdInputs : doctor_cancel_appointment(u, a)

PatientCancelStep ==
    \E u \in Patients, a \in AppointmentIdInputs : cancel_appointment(u, a)

\* a request to a route of the other role
WrongRoleStep ==
    \/ \E f \in BookForms : book_appointment("drA", 1, f)
    \/ \E f \in TreatmentForms : complete_appointment("patP", 1, f)
    \/ doctor_cancel_appointment("patP", 1)
    \/ cancel_appointment("drA", 1)

Next ==
    \/ BookStep
    \/ BookAbsentDoctorStep
    \/ CompleteStep
    \/ DoctorCancelStep
    \/ PatientCancelStep
    \/ WrongRoleStep

Spec == Init /\ [][Next]_vars

(* The same, over the wider booking and completion forms *)

BookWideStep ==
    \E u \in Patients, d \in DoctorIds, f \in BookFormsWide : book_appointment(u, d, f)

CompleteWideStep ==
    \E u \in Doctors, a \in AppointmentIdInputs, f \in TreatmentFormsWide :
        complete_appointment(u, a, f)

NextWide ==
    \/ BookWideStep
    \/ BookAbsentDoctorStep
    \/ CompleteWideStep
    \/ DoctorCancelStep
    \/ PatientCancelStep
    \/ WrongRoleStep

SpecWide == Init /\ [][NextWide]_vars

(* Booking and lifecycle requests served by concurrent request threads:   *)
(* the statements of a request are separate steps, and the other requests *)
(* run between them.                                                      *)

\* the booking form of the concurrent requests: one date and one time
ConcBookForms == {f \in BookForms : f.appointment_time = "09:30"}

SelectStep ==
    \E w \in Workers, u \in Patients, d \in {1}, f \in ConcBookForms :
        book_select(w, u, d, f)

InsertStep == \E w \in Workers : book_insert(w)

CommitStep == \E w \in Workers : book_commit(w)

ConcCompleteStep ==
    \E w \in Workers, a \in AppointmentIdInputs, f \in TreatmentForms :
        complete_select(w, "drA", a, f)

CompleteAutoflushStep == \E w \in Workers : complete_autoflush(w)

CompleteFlushStep == \E w \in Workers : complete_flush(w)

CompleteCommitStep == \E w \in Workers : complete_commit(w)

ConcDoctorCancelStep ==
    \E w \in Workers, a \in AppointmentIdInputs : doctor_cancel_select(w, "drA", a)

DoctorCancelFlushStep == \E w \in Workers : doctor_cancel_flush(w)

DoctorCancelCommitStep == \E w \in Workers : doctor_cancel_commit(w)

ConcPatientCancelStep ==
    \E w \in Workers, u \in Patients, a \in AppointmentIdInputs : cancel_select(w, u, a)

PatientCancelFlushStep == \E w \in Workers : cancel_flush(w)

PatientCancelCommitStep == \E w \in Workers : cancel_commit(w)

LockedStep == \E w \in Workers : request_locked(w)

NextConc ==
    \/ SelectStep
    \/ InsertStep
    \/ CommitStep
    \/ ConcCompleteStep
    \/ CompleteAutoflushStep
    \/ CompleteFlushStep
    \/ CompleteCommitStep
    \/ ConcDoctorCancelStep
    \/ DoctorCancelFlushStep
    \/ DoctorCancelCommitStep
    \/ ConcPatientCancelStep
    \/ PatientCancelFlushStep
    \/ PatientCancelCommitStep
    \/ LockedStep

SpecConc == Init /\ [][NextConc]_vars

(* The availability manager over the passing days *)

\* the POSTs of the two doctors on day t; the second doctor sends the fields of
\* that day alone
AvailabilityRequests(t) ==
    ({"drA"} \X AvailabilityForms(t)) \cup ({"drB"} \X [{t} -> FormEntries])

AvailabilityStep ==
    \E r \in AvailabilityRequests(today) : doctor_availability(r[1], r[2])

AvailabilityDeniedStep ==
    \E f \in [{today} -> FormEntries] : doctor_availability("patP", f)

NextAvail == AvailabilityStep \/ AvailabilityDeniedStep \/ NextDay

SpecAvail == Init /\ [][NextAvail]_vars

(* The admin deactivating doctors between the booking and lifecycle       *)
(* requests                                                               *)

DeleteDoctorStep ==
    \E d \in DoctorIdInputs : delete_doctor("admin", d)

\* a delete request of a user who is not the admin
DeleteDoctorDeniedStep == delete_doctor("patP", 1)

\* <int:patient_id> of the delete URL; 3 is the id of no patient
PatientIdInputs == {1, 2, 3}

DeletePatientStep ==
    \E p \in PatientIdInputs : delete_patient("admin", p)

\* a delete request of a user who is not the admin
DeletePatientDeniedStep == delete_patient("drA", 1)

NextAdmin ==
    \/ DeleteDoctorStep
    \/ DeleteDoctorDeniedStep
    \/ DeletePatientStep
    \/ DeletePatientDeniedStep
    \/ BookStep
    \/ BookAbsentDoctorStep
    \/ CompleteStep
    \/ DoctorCancelStep

SpecAdmin == Init /\ [][NextAdmin]_vars

(* Availability POSTs served by concurrent request threads *)

\* the fields of one date, with the checkbox set and both times given or with
\* the checkbox not set
ConcFormEntries == {e \in FormEntries : e.end = "12:00"}

\* the POSTs of the two doctors on day t: the first doctor sends the fields of
\* the first and the last day of the loop, the second a window for day t alone
ConcAvailabilityRequests(t) ==
    ({"drA"} \X [{t + o : o \in FormOffsets} -> ConcFormEntries])
        \cup ({"drB"} \X [{t} -> {e \in ConcFormEntries : e.available}])

AvailBeginStep ==
    \E w \in Workers, r \in ConcAvailabilityRequests(today) : avail_begin(w, r[1], r[2])

AvailBeginDeniedStep ==
    \E w \in Workers, f \in [{today} -> ConcFormEntries] : avail_begin(w, "patP", f)

AvailDeleteStep == \E w \in Workers : avail_delete(w)

AvailLockedStep == \E w \in Workers : avail_locked(w)

AvailInsertStep == \E w \in Workers : avail_insert(w)

AvailCommitStep == \E w \in Workers : avail_commit(w)

NextAvailConc ==
    \/ AvailBeginStep
    \/ AvailBeginDeniedStep
    \/ AvailDeleteStep
    \/ AvailLockedStep
    \/ AvailInsertStep
    \/ AvailCommitStep
    \/ NextDay

SpecAvailConc == Init /\ [][NextAvailConc]_vars

----------------------------------------------------------------------------
(* Properties *)

Slots ==
    {<<d, ParseDate(f.appointment_date), ParseTime(f.appointment_time)>> :
        d \in DoctorIds, f \in BookFormsWide}

\* the ids of the rows of a slot whose status is one of the given ones
RowsAt(rows, slot, statuses) ==
    {i \in DOMAIN rows :
        /\ <<rows[i].doctor_id, rows[i].appointment_date, rows[i].appointment_time>> = slot
        /\ rows[i].status \in statuses}

\* some row of the slot is Booked
HoldsBooked(rows, slot) ==
    \E i \in DOMAIN rows :
        /\ rows[i].status = "Booked"
        /\ rows[i].doctor_id = slot[1]
        /\ rows[i].appointment_date = slot[2]
        /\ rows[i].appointment_time = slot[3]

SlotOf(doctor_id, form) ==
    <<doctor_id, ParseDate(form.appointment_date), ParseTime(form.appointment_time)>>

\* the answers of a request that was refused or found no row
Failures == {"Please log in", "Access denied", "404 appointment"}

OwningDoctor(u, a) == Role(u) = "doctor" /\ DoctorProfile(u) = appts[a].doctor_id

OwningPatient(u, a) == Role(u) = "patient" /\ PatientProfile(u) = appts[a].patient_id

\* C1: under any interleaving of concurrent booking requests with cancel and
\* complete requests, at most one Booked appointment exists per (doctor, date,
\* time).  The code has no uniqueness constraint behind its check-then-insert, and
\* two requests that both pass the check both insert.
C1_AtMostOneBookedPerSlot ==
    \A i, j \in DOMAIN appts :
        (/\ i # j
         /\ appts[i].status = "Booked"
         /\ appts[j].status = "Booked"
         /\ appts[i].doctor_id = appts[j].doctor_id
         /\ appts[i].appointment_date = appts[j].appointment_date)
        => appts[i].appointment_time # appts[j].appointment_time

\* C2: with requests served one at a time, a booking of a slot that holds a
\* Booked appointment is rejected as a conflict and leaves the Appointment table
\* as it was, with exactly one Booked row at that slot.
C2_RebookingRejected ==
    [][\A u \in Patients, d \in DoctorIds, f \in BookFormsWide :
         (/\ RoleOK(u, "patient")
          /\ HoldsBooked(appts, SlotOf(d, f))
          /\ book_appointment(u, d, f))
         => (/\ appts' = appts
             /\ treatments' = treatments
             /\ result' = "Time slot already booked"
             /\ Cardinality(RowsAt(appts', SlotOf(d, f), {"Booked"})) = 1)]_vars

\* a booking has just been rejected for a slot that holds a Booked appointment
C2_Witness ==
    /\ result = "Time slot already booked"
    /\ \E slot \in Slots : RowsAt(appts, slot, {"Booked"}) # {}

\* C3: a booking of a slot that holds no Booked appointment succeeds and adds
\* one Booked appointment of the requesting patient, however many Cancelled or
\* Completed appointments the slot holds.
C3_FreeSlotBooks ==
    [][\A u \in Patients, d \in DoctorIds, f \in BookFormsWide :
         (/\ RoleOK(u, "patient")
          /\ ~HoldsBooked(appts, SlotOf(d, f))
          /\ book_appointment(u, d, f))
         => (/\ result' = "Appointment booked"
             /\ Len(appts') = Len(appts) + 1
             /\ SubSeq(appts', 1, Len(appts)) = appts
             /\ appts'[Len(appts')].status = "Booked"
             /\ appts'[Len(appts')].patient_id = PatientProfile(u)
             /\ appts'[Len(appts')].doctor_id = d
             /\ appts'[Len(appts')].appointment_date = ParseDate(f.appointment_date)
             /\ appts'[Len(appts')].appointment_time = ParseTime(f.appointment_time))]_vars

\* the last row was just booked into a slot that holds an earlier Cancelled or
\* Completed appointment
C3_Witness ==
    /\ result = "Appointment booked"
    /\ appts # <<>>
    /\ appts[Len(appts)].status = "Booked"
    /\ \E i \in 1..(Len(appts) - 1) :
          /\ appts[i].status \in {"Cancelled", "Completed"}
          /\ appts[i].doctor_id = appts[Len(appts)].doctor_id
          /\ appts[i].appointment_date = appts[Len(appts)].appointment_date
          /\ appts[i].appointment_time = appts[Len(appts)].appointment_time

\* C4, as claimed: no two appointments that are not Cancelled (Booked or
\* Completed) share a (doctor, date, time).
C4_NoTwoNonCancelledShareSlot ==
    \A slot \in Slots : Cardinality(RowsAt(appts, slot, {"Booked", "Completed"})) <= 1

\* C4, amended: with requests served one at a time, no two Booked appointments
\* share a (doctor, date, time); a Completed appointment does not hold its slot.
C4_NoTwoBookedShareSlot ==
    \A slot \in Slots : Cardinality(RowsAt(appts, slot, {"Booked"})) <= 1

\* a slot holds a Completed appointment and a Booked one
C4_Witness ==
    \E slot \in Slots :
        /\ RowsAt(appts, slot, {"Completed"}) # {}
        /\ RowsAt(appts, slot, {"Booked"}) # {}

\* C5: Completed and Cancelled are terminal: no complete or cancel request
\* changes the status of an appointment that is Completed or Cancelled.
C5_TerminalStatus ==
    [][\A a \in DOMAIN appts :
         appts[a].status \in {"Completed", "Cancelled"}
         => (a \in DOMAIN appts' /\ appts'[a].status = appts[a].status)]_vars

\* the follow-up date a completion form carries
FollowUpOf(form) ==
    IF form.follow_up_date = "" THEN NoDate ELSE ParseDate(form.follow_up_date)

\* C6: after a complete request of the owning doctor, exactly one Treatment row
\* exists for the appointment and its diagnosis, prescription, notes and
\* follow-up date are those of that request.
C6_TreatmentHoldsLatestPayload ==
    [][\A u \in {"drA", "drB"}, a \in DOMAIN appts, f \in TreatmentFormsWide :
         (/\ RoleOK(u, "doctor")
          /\ OwningDoctor(u, a)
          /\ complete_appointment(u, a, f))
         => (/\ Cardinality(TreatmentsOf(treatments', a)) = 1
             /\ \A i \in TreatmentsOf(treatments', a) :
                   /\ treatments'[i].diagnosis = f.diagnosis
                   /\ treatments'[i].prescription = f.prescription
                   /\ treatments'[i].notes = f.notes
                   /\ treatments'[i].follow_up_date = FollowUpOf(f))]_vars

\* C7: a complete or cancel request of an actor who does not own the
\* appointment (on the doctor routes anyone but the appointment's doctor, on the
\* patient route anyone but the appointment's patient) fails with Access denied
\* or 404 and leaves every appointment and every Treatment row as it was.
C7_NonOwnerRejected ==
    [][\A u \in Actors, a \in DOMAIN appts :
         /\ (/\ ~OwningDoctor(u, a)
             /\ \/ doctor_cancel_appointment(u, a)
                \/ \E f \in TreatmentFormsWide : complete_appointment(u, a, f))
            => (/\ appts' = appts
                /\ treatments' = treatments
                /\ result' \in Failures)
         /\ (~OwningPatient(u, a) /\ cancel_appointment(u, a))
            => (/\ appts' = appts
                /\ treatments' = treatments
                /\ result' \in Failures)]_vars

\* every appointment id exists, one appointment is Completed with its Treatment
\* and one is Booked, and the last request was answered 404: it named an
\* appointment of another doctor or another patient
C7_Witness ==
    /\ result = "404 appointment"
    /\ Len(appts) = MaxAppts
    /\ \E a \in DOMAIN appts :
          appts[a].status = "Completed" /\ TreatmentsOf(treatments, a) # {}
    /\ \E a \in DOMAIN appts : appts[a].status = "Booked"

\* C8: a cancel request of the owning patient or the owning doctor on an
\* appointment that is Cancelled or Completed changes neither its status nor its
\* Treatment and is not answered with an error.
C8_CancelOnlyFromBooked ==
    [][\A u \in Actors, a \in DOMAIN appts :
         (/\ appts[a].status \in {"Cancelled", "Completed"}
          /\ \/ OwningPatient(u, a) /\ RoleOK(u, "patient") /\ cancel_appointment(u, a)
             \/ OwningDoctor(u, a) /\ RoleOK(u, "doctor")
                    /\ doctor_cancel_appointment(u, a))
         => (/\ appts' = appts
             /\ treatments' = treatments
             /\ result' \notin Failures)]_vars

\* the days of the horizon [today, today + 6] on day t
Horizon(t) == t..(t + HorizonDays - 1)

\* the windows a form asks for: the dates whose checkbox is set and whose two
\* times are given
Asked(form) ==
    {d \in DOMAIN form : form[d].available /\ form[d].start # "" /\ form[d].end # ""}

WindowOf(doctor_id, d, form) ==
    [doctor_id |-> doctor_id, date |-> d,
     start_time |-> ParseTime(form[d].start), end_time |-> ParseTime(form[d].end),
     is_available |-> TRUE]

\* C9: a POST of the availability form by doctor D replaces D's windows of the
\* horizon [today, today + 6] by the windows the form asks for in the horizon,
\* and leaves every window of D outside the horizon and every window of any other
\* doctor as it was.
C9_ReplacesOnlyOwnHorizon ==
    [][\A req \in AvailabilityRequests(today) :
         (RoleOK(req[1], "doctor") /\ doctor_availability(req[1], req[2]))
         => LET D == DoctorProfile(req[1])
                f == req[2]
                Others(r) == r.doctor_id # D
                Outside(r) == r.doctor_id = D /\ r.date \notin Horizon(today)
                Inside(r) == r.doctor_id = D /\ r.date \in Horizon(today)
                Part(B, P(_)) == [r \in {x \in DOMAIN B : P(x)} |-> B[r]]
            IN  /\ Part(avail', Others) = Part(avail, Others)
                /\ Part(avail', Outside) = Part(avail, Outside)
                /\ Part(avail', Inside) =
                     SetToBag({WindowOf(D, d, f) : d \in Asked(f) \cap Horizon(today)})]_vars

\* on a later day a doctor has just replaced the windows of the horizon (only
\* today's POST makes a window six days ahead), a window of an earlier day is
\* still there, and so is a window of the other doctor
C9_Witness ==
    /\ today > 0
    /\ result = "Availability updated"
    /\ \E D \in DoctorIds :
          /\ \E r \in DOMAIN avail : r.doctor_id = D /\ r.date = today + 6
          /\ \E r \in DOMAIN avail : r.doctor_id = D /\ r.date < today
          /\ \E r \in DOMAIN avail : r.doctor_id # D

\* C10: after a POST of the availability form by doctor D, the windows shown for
\* D on each date of the horizon are exactly the windows the form asks for on
\* that date with start before end, and every stored window has start_time
\* before end_time.
C10_StoresOnlyProperWindows ==
    [][\A req \in AvailabilityRequests(today) :
         (RoleOK(req[1], "doctor") /\ doctor_availability(req[1], req[2]))
         => LET D == DoctorProfile(req[1])
                f == req[2]
            IN  /\ \A d \in Horizon(today) :
                      {r \in DOMAIN AvailabilityQuery(avail', D, today) : r.date = d}
                      = {WindowOf(D, x, f) :
                            x \in {y \in Asked(f) \cap {d} :
                                      ParseTime(f[y].start) < ParseTime(f[y].end)}}
                /\ \A r \in DOMAIN avail' : r.start_time < r.end_time]_vars

\* C11: in every state reached by book, complete and cancel requests, each
\* Treatment row belongs to an appointment whose status is Completed, and each
\* appointment has at most one Treatment row.
C11_TreatmentOfCompleted ==
    /\ \A i \in DOMAIN treatments :
          /\ treatments[i].appointment_id \in DOMAIN appts
          /\ appts[treatments[i].appointment_id].status = "Completed"
    /\ \A a \in DOMAIN appts : Cardinality(TreatmentsOf(treatments, a)) <= 1

\* C12: a booking that names a doctor who is absent, or whose user delete_doctor
\* has deactivated, fails with 404 and adds no Appointment row.
C12_InactiveDoctorNotFound ==
    [][\A u \in Patients, d \in DoctorIdInputs, f \in BookForms :
         (/\ RoleOK(u, "patient")
          /\ (d \notin DoctorIds \/ ~user_active[DoctorUser(d)])
          /\ book_appointment(u, d, f))
         => (/\ appts' = appts
             /\ result' = "404 doctor")]_vars

\* C13: an appointment is never reopened and never deleted: every request
\* keeps every Appointment row, with its patient, doctor, date and time, and an
\* appointment whose status is Completed or Cancelled is not Booked afterwards.
C13_NeverReopened ==
    [][\A a \in DOMAIN appts :
         /\ a \in DOMAIN appts'
         /\ appts'[a].patient_id = appts[a].patient_id
         /\ appts'[a].doctor_id = appts[a].doctor_id
         /\ appts'[a].appointment_date = appts[a].appointment_date
         /\ appts'[a].appointment_time = appts[a].appointment_time
         /\ appts[a].status # "Booked" => appts'[a].status # "Booked"]_vars

\* an appointment was completed and then cancelled, and its slot has just been
\* booked again: the booking added a row and the earlier one stays Cancelled
C13_Witness ==
    /\ result = "Appointment booked"
    /\ \E a, b \in DOMAIN appts :
          /\ a < b
          /\ appts[a].status = "Cancelled"
          /\ TreatmentsOf(treatments, a) # {}
          /\ appts[b].status = "Booked"
          /\ appts[b].doctor_id = appts[a].doctor_id
          /\ appts[b].appointment_date = appts[a].appointment_date
          /\ appts[b].appointment_time = appts[a].appointment_time

\* the number of windows stored for a doctor and a date
WindowCount(rows, doctor_id, d) ==
    BagCardinality(Rows(rows, {r \in DOMAIN rows : r.doctor_id = doctor_id /\ r.date = d}))

\* C14: after any sequence or interleaving of availability POSTs (each a
\* DELETE of the week's windows, the INSERTs of the new ones and a commit), the
\* table holds at most one window per doctor and date of the horizon
\* [today, today + 6].
C14_OneWindowPerDoctorDate ==
    \A D \in DoctorIds, d \in Horizon(today) : WindowCount(avail, D, d) <= 1

\* two POSTs of one doctor are in flight over a stored window of that doctor: one
\* has deleted the window and added its own and is about to commit, the other
\* has begun and waits at its DELETE
C14_Witness ==
    \E v, w \in Workers :
        /\ inflight[v].pc = "avail_commit"
        /\ inflight[w].pc = "avail_delete"
        /\ inflight[w].doctor_id = inflight[v].doctor_id
        /\ inflight[v].deleted # EmptyBag
        /\ inflight[v].added # EmptyBag
        /\ \E d \in Horizon(today) : WindowCount(avail, inflight[v].doctor_id, d) = 1

====
